---- MODULE Spec2Model ----
(***************************************************************************)
(* Wallet consensus synchronisation of Sia (package wallet, update.go):     *)
(* updateConfirmedSet, revertHistory, applyHistory, ProcessConsensusChange  *)
(* and ReceiveUpdatedUnconfirmedTransactions, driven by a consensus set     *)
(* that applies and reverts blocks of a small block catalogue.              *)
(***************************************************************************)
EXTENDS Integers, Sequences, FiniteSets, TLC

(***************************************************************************)
(* Bounds of the model.                                                     *)
(***************************************************************************)
MaxChain == 3      \* longest path of blocks the consensus set builds
MaxRevert == 2     \* most reverted blocks carried by one consensus change
MaxApply == 2      \* most applied blocks carried by one consensus change
MaxBlock == 6      \* blocks of the catalogue that Spec's consensus set holds
MaxScans == 4      \* scans in a host's history
MaxCand == 2       \* most candidates of one unconfirmed rebuild

(***************************************************************************)
(* Program constants.                                                       *)
(***************************************************************************)
MaturityDelay == 144            \* types.MaturityDelay
HeightBits == 16                \* width types.BlockHeight is modelled at
HeightMod == 2 ^ HeightBits
MaxUint64 == HeightMod - 1      \* math.MaxUint64 at the modelled width

DiffApply == TRUE               \* modules.DiffApply
DiffRevert == FALSE             \* modules.DiffRevert

\* w.keys: the addresses the wallet holds keys for (read-only here).
keys == {"a"}

(***************************************************************************)
(* Maps (Go map[K]V) as functions; a missing key reads as the zero value.   *)
(***************************************************************************)
EmptyMap == <<>>
MapPut(m, k, v) == (k :> v) @@ m
MapDelete(m, k) == [x \in DOMAIN m \ {k} |-> m[x]]
MapGet(m, k) == IF k \in DOMAIN m THEN m[k] ELSE 0

(***************************************************************************)
(* Transactions and blocks.  Identifiers are hashes of the content; the     *)
(* model uses the position n in the catalogue, which is injective like the  *)
(* hash, tagged by the kind of identifier.  The empty transaction           *)
(* types.Transaction{} has n = 0.                                           *)
(***************************************************************************)
EmptyTxn == [n |-> 0, sci |-> <<>>, sco |-> <<>>, sfi |-> <<>>, sfo |-> <<>>,
             fees |-> <<>>]

TxnIDOf(n) == <<"txn", n>>
SiacoinOutputIDOf(n, i) == <<"sco", n, i>>
SiafundOutputIDOf(n, i) == <<"sfo", n, i>>
\* types.Block.MinerPayoutID of block number n and
\* types.SiafundOutputID.SiaClaimOutputID of a siafund output
MinerPayoutIDOf(n, i) == <<"mp", n, i>>
SiaClaimOutputID(id) == <<"claim", id[2], id[3]>>

TxnCatalogue ==
  << \* 1: the initial distribution: coins and funds of a foreign address
     \*    and of the wallet
     [EmptyTxn EXCEPT !.n = 1,
                      !.sco = << [addr |-> "x", value |-> 5],
                                 [addr |-> "a", value |-> 1] >>,
                      !.sfo = << [addr |-> "x", value |-> 2, claimStart |-> 0],
                                 [addr |-> "a", value |-> 2, claimStart |-> 0] >>],
     \* 2: a foreign address pays the wallet
     [EmptyTxn EXCEPT !.n = 2,
                      !.sci = << [parent |-> SiacoinOutputIDOf(1, 0), addr |-> "x"] >>,
                      !.sco = << [addr |-> "a", value |-> 4] >>,
                      !.fees = << 1 >>],
     \* 3: the wallet spends that output, with change to itself
     [EmptyTxn EXCEPT !.n = 3,
                      !.sci = << [parent |-> SiacoinOutputIDOf(2, 0), addr |-> "a"] >>,
                      !.sco = << [addr |-> "x", value |-> 3],
                                 [addr |-> "a", value |-> 1] >>],
     \* 4: a foreign address hands the wallet the pool-bearing asset
     [EmptyTxn EXCEPT !.n = 4,
                      !.sfi = << [parent |-> SiafundOutputIDOf(1, 0), addr |-> "x",
                                  claimAddr |-> "x"] >>,
                      !.sfo = << [addr |-> "a", value |-> 2, claimStart |-> 1] >>],
     \* 5: the wallet redeems its funds of the initial distribution
     [EmptyTxn EXCEPT !.n = 5,
                      !.sfi = << [parent |-> SiafundOutputIDOf(1, 1), addr |-> "a",
                                  claimAddr |-> "a"] >>,
                      !.sfo = << [addr |-> "x", value |-> 2, claimStart |-> 0] >>],
     \* 6: arbitrary data only, nothing of the wallet's
     [EmptyTxn EXCEPT !.n = 6],
     \* 7: a foreign address redeems its funds and names the wallet's
     \*    address for the claim
     [EmptyTxn EXCEPT !.n = 7,
                      !.sfi = << [parent |-> SiafundOutputIDOf(5, 0), addr |-> "x",
                                  claimAddr |-> "a"] >>,
                      !.sfo = << [addr |-> "x", value |-> 2, claimStart |-> 0] >>],
     \* 8: the wallet spends its miner payout of block 1
     [EmptyTxn EXCEPT !.n = 8,
                      !.sci = << [parent |-> MinerPayoutIDOf(1, 1), addr |-> "a"] >>,
                      !.sco = << [addr |-> "x", value |-> 1] >>],
     \* 9: the wallet spends the claim of transaction 5
     [EmptyTxn EXCEPT !.n = 9,
                      !.sci = << [parent |-> SiaClaimOutputID(SiafundOutputIDOf(1, 1)),
                                  addr |-> "a"] >>,
                      !.sco = << [addr |-> "x", value |-> 4] >>]
  >>

NumTxns == Len(TxnCatalogue)
Txns == {TxnCatalogue[n] : n \in 1..NumTxns}
TxnNum(txn) == txn.n

\* types.Transaction.ID, SiacoinOutputID, SiafundOutputID
TxnID(txn) == TxnIDOf(TxnNum(txn))
SiacoinOutputID(txn, i) == SiacoinOutputIDOf(TxnNum(txn), i)
SiafundOutputID(txn, i) == SiafundOutputIDOf(TxnNum(txn), i)

\* `delayed` marks a block that spends delayed outputs (miner payouts,
\* claims): the consensus set accepts it MaturityDelay blocks after them.
BlockCatalogue ==
  << [n |-> 1, txns |-> << TxnCatalogue[1] >>, ts |-> 10, tax |-> << >>,
      payouts |-> << [addr |-> "x", value |-> 3], [addr |-> "a", value |-> 1] >>,
      delayed |-> FALSE],
     [n |-> 2, txns |-> << TxnCatalogue[2] >>, ts |-> 11, tax |-> << 1 >>,
      payouts |-> << [addr |-> "a", value |-> 3] >>, delayed |-> FALSE],
     [n |-> 3, txns |-> << TxnCatalogue[6], TxnCatalogue[4] >>, ts |-> 12, tax |-> << 1 >>,
      payouts |-> << [addr |-> "x", value |-> 3] >>, delayed |-> FALSE],
     [n |-> 4, txns |-> << TxnCatalogue[3] >>, ts |-> 13, tax |-> << >>,
      payouts |-> << [addr |-> "x", value |-> 2], [addr |-> "a", value |-> 1] >>,
      delayed |-> FALSE],
     [n |-> 5, txns |-> << TxnCatalogue[5] >>, ts |-> 14, tax |-> << 2 >>,
      payouts |-> << [addr |-> "x", value |-> 3] >>, delayed |-> FALSE],
     [n |-> 6, txns |-> << TxnCatalogue[2], TxnCatalogue[3] >>, ts |-> 15, tax |-> << 1 >>,
      payouts |-> << [addr |-> "a", value |-> 3] >>, delayed |-> FALSE],
     \* 7: nothing the wallet's relevance test sees
     [n |-> 7, txns |-> << TxnCatalogue[7] >>, ts |-> 16, tax |-> << >>,
      payouts |-> << [addr |-> "x", value |-> 3] >>, delayed |-> FALSE],
     \* 8: the wallet spends a miner payout and a claim
     [n |-> 8, txns |-> << TxnCatalogue[8], TxnCatalogue[9] >>, ts |-> 17, tax |-> << >>,
      payouts |-> << [addr |-> "x", value |-> 3] >>, delayed |-> TRUE]
  >>

NumBlocks == Len(BlockCatalogue)
Blocks == {BlockCatalogue[n] : n \in 1..NumBlocks}

\* types.Block.ID (a types.BlockID, cast to types.TransactionID for the
\* miner payout entry) and types.Block.MinerPayoutID
BlockID(block) == <<"blk", block.n>>
MinerPayoutID(block, i) == MinerPayoutIDOf(block.n, i)

(***************************************************************************)
(* The consensus set: the producer of modules.ConsensusChange.  A path is   *)
(* a sequence of block numbers; a block may join the path when it and its   *)
(* transactions are new to the path and every input spends an output that   *)
(* an earlier transaction of the path created and none has spent.  The      *)
(* diffs of a block are those the consensus set derives when it applies     *)
(* the block; a reverted block carries them reversed and flipped.           *)
(***************************************************************************)
RECURSIVE Concat(_)
Concat(ss) == IF ss = <<>> THEN <<>> ELSE Head(ss) \o Concat(Tail(ss))

RECURSIVE Sum(_)
Sum(s) == IF s = <<>> THEN 0 ELSE Head(s) + Sum(Tail(s))

Reverse(s) == [i \in 1..Len(s) |-> s[Len(s) + 1 - i]]

PathTxns(path) == Concat([j \in 1..Len(path) |-> BlockCatalogue[path[j]].txns])

TxnInputs(txn) ==
  {txn.sci[i].parent : i \in 1..Len(txn.sci)} \cup {txn.sfi[i].parent : i \in 1..Len(txn.sfi)}

\* the transaction creates the output: its own siacoin and siafund
\* outputs, and the claim of each siafund output it spends
TxnCreates(txn, id) ==
  \/ id[1] \in {"sco", "sfo"} /\ TxnNum(txn) = id[2]
  \/ id[1] = "claim" /\ \E i \in 1..Len(txn.sfi) : SiaClaimOutputID(txn.sfi[i].parent) = id

ValidTxns(ts) ==
  /\ \A i, j \in 1..Len(ts) : i # j => ts[i] # ts[j]
  /\ \A k \in 1..Len(ts) :
       /\ Cardinality(TxnInputs(ts[k])) = Len(ts[k].sci) + Len(ts[k].sfi)
       /\ \A id \in TxnInputs(ts[k]) :
            /\ id[1] # "mp" => \E j \in 1..(k - 1) : TxnCreates(ts[j], id)
            /\ \A j \in 1..(k - 1) : id \notin TxnInputs(ts[j])

\* the inputs of a block that spend delayed outputs
DelayedInputs(block) ==
  {id \in UNION {TxnInputs(block.txns[i]) : i \in 1..Len(block.txns)} :
     id[1] \in {"mp", "claim"}}

\* A delayed output is spent by a block marked `delayed` only, and an
\* earlier block of the path created it; the paths of the model hold at
\* most one such block.
ValidPath(path) ==
  /\ \A i, j \in 1..Len(path) : i # j => path[i] # path[j]
  /\ ValidTxns(PathTxns(path))
  /\ Cardinality({j \in 1..Len(path) : BlockCatalogue[path[j]].delayed}) <= 1
  /\ \A j \in 1..Len(path) :
       LET b == BlockCatalogue[path[j]]
       IN  /\ DelayedInputs(b) # {} => b.delayed
           /\ \A id \in DelayedInputs(b) :
                \E i \in 1..(j - 1) :
                  LET c == BlockCatalogue[path[i]]
                  IN  \/ id[1] = "mp" /\ c.n = id[2] /\ id[3] < Len(c.payouts)
                      \/ \E k \in 1..Len(c.txns) : TxnCreates(c.txns[k], id)

\* The blocks the consensus set holds for position j of a path: the block
\* of the catalogue, and before a block marked `delayed` the MaturityDelay
\* blocks of other parties that let the delayed outputs mature.
FillerBlock(j, k) ==
  [n |-> 1000 * j + k, txns |-> << >>, ts |-> 0, tax |-> << >>,
   payouts |-> << [addr |-> "x", value |-> 3] >>, delayed |-> FALSE]

Segment(path, j) ==
  (IF BlockCatalogue[path[j]].delayed
     THEN [k \in 1..MaturityDelay |-> FillerBlock(j, k)]
     ELSE << >>)
  \o << BlockCatalogue[path[j]] >>

\* the height of the catalogue block at position j of the path, and the
\* position of the catalogue block of height h
HeightOf(path, j) ==
  j + MaturityDelay * Cardinality({i \in 1..j : BlockCatalogue[path[i]].delayed})

PosAt(path, h) == CHOOSE j \in 1..Len(path) : HeightOf(path, j) = h

\* the pool level of the consensus set once the first h blocks are applied
PoolAfter(path, h) == Sum(Concat([j \in 1..h |-> BlockCatalogue[path[j]].tax]))

\* the position in the path of the block that holds transaction number n
CreatedAt(path, n) ==
  CHOOSE j \in 1..Len(path) :
    \E i \in 1..Len(BlockCatalogue[path[j]].txns) :
      TxnNum(BlockCatalogue[path[j]].txns[i]) = n

\* the outputs as the consensus set holds them
SiacoinOutputOf(id) == TxnCatalogue[id[2]].sco[id[3] + 1]
SiafundOutputOf(path, id) ==
  [TxnCatalogue[id[2]].sfo[id[3] + 1] EXCEPT
     !.claimStart = PoolAfter(path, CreatedAt(path, id[2]))]

\* the claim the consensus set pays when transaction txn spends its i-th
\* siafund input at position j of the path
ClaimOf(path, j, txn, i) ==
  LET sfo == SiafundOutputOf(path, txn.sfi[i].parent)
  IN  [ID |-> SiaClaimOutputID(txn.sfi[i].parent),
       SiacoinOutput |-> [addr |-> txn.sfi[i].claimAddr,
                          value |-> (PoolAfter(path, j) - sfo.claimStart) * sfo.value]]

\* the delayed outputs of the block at position j: its miner payouts,
\* then the claims of its transactions
DelayedOutputs(path, j) ==
  LET b == BlockCatalogue[path[j]]
  IN  [i \in 1..Len(b.payouts) |->
         [ID |-> MinerPayoutID(b, i - 1), SiacoinOutput |-> b.payouts[i]]]
      \o
      Concat([k \in 1..Len(b.txns) |->
                [i \in 1..Len(b.txns[k].sfi) |-> ClaimOf(path, j, b.txns[k], i)]])

\* a siacoin output of any origin, as a transaction of the path spends it
SpentSiacoinOutput(path, id) ==
  IF id[1] = "sco" THEN SiacoinOutputOf(id)
  ELSE LET all == Concat([j \in 1..Len(path) |-> DelayedOutputs(path, j)])
       IN  all[CHOOSE k \in 1..Len(all) : all[k].ID = id].SiacoinOutput

TxnSiacoinDiffs(path, txn) ==
  [i \in 1..Len(txn.sci) |->
     [Direction |-> DiffRevert, ID |-> txn.sci[i].parent,
      SiacoinOutput |-> SpentSiacoinOutput(path, txn.sci[i].parent)]]
  \o
  [i \in 1..Len(txn.sco) |->
     [Direction |-> DiffApply, ID |-> SiacoinOutputID(txn, i - 1),
      SiacoinOutput |-> txn.sco[i]]]

TxnSiafundDiffs(path, txn) ==
  [i \in 1..Len(txn.sfi) |->
     [Direction |-> DiffRevert, ID |-> txn.sfi[i].parent,
      SiafundOutput |-> SiafundOutputOf(path, txn.sfi[i].parent)]]
  \o
  [i \in 1..Len(txn.sfo) |->
     [Direction |-> DiffApply, ID |-> SiafundOutputID(txn, i - 1),
      SiafundOutput |-> SiafundOutputOf(path, SiafundOutputID(txn, i - 1))]]

\* the delayed outputs that mature in the blocks before a block marked
\* `delayed`: those of the earlier positions, as siacoin outputs
MaturedDiffs(path, j) ==
  LET outs == Concat([i \in 1..(j - 1) |-> DelayedOutputs(path, i)])
  IN  [k \in 1..Len(outs) |->
         [Direction |-> DiffApply, ID |-> outs[k].ID,
          SiacoinOutput |-> outs[k].SiacoinOutput]]

\* the diffs of the blocks of position j of the path, as applied
BlockSiacoinDiffs(path, j) ==
  LET b == BlockCatalogue[path[j]]
  IN  (IF b.delayed THEN MaturedDiffs(path, j) ELSE << >>)
      \o Concat([i \in 1..Len(b.txns) |-> TxnSiacoinDiffs(path, b.txns[i])])

BlockSiafundDiffs(path, j) ==
  LET b == BlockCatalogue[path[j]]
  IN  Concat([i \in 1..Len(b.txns) |-> TxnSiafundDiffs(path, b.txns[i])])

BlockPoolDiffs(path, j) ==
  LET b == BlockCatalogue[path[j]]
      before == PoolAfter(path, j - 1)
  IN  [k \in 1..Len(b.tax) |->
         [Direction |-> DiffApply,
          Previous |-> before + Sum(SubSeq(b.tax, 1, k - 1)),
          Adjusted |-> before + Sum(SubSeq(b.tax, 1, k))]]

Flip(diffs) ==
  [i \in 1..Len(diffs) |->
     [diffs[Len(diffs) + 1 - i] EXCEPT !.Direction = DiffRevert = diffs[Len(diffs) + 1 - i].Direction]]

\* The change that takes the consensus set from path `from` to path `to`:
\* the blocks of `from` above the common part are reverted, newest first,
\* then the blocks of `to` above it are applied, oldest first.
ConsensusChange(from, common, to, synced) ==
  LET rev == [i \in 1..(Len(from) - common) |-> Len(from) + 1 - i]
      app == [i \in 1..(Len(to) - common) |-> common + i]
  IN  [RevertedBlocks |->
         Concat([i \in 1..Len(rev) |-> Reverse(Segment(from, rev[i]))]),
       AppliedBlocks |-> Concat([i \in 1..Len(app) |-> Segment(to, app[i])]),
       SiacoinOutputDiffs |->
         Concat([i \in 1..Len(rev) |-> Flip(BlockSiacoinDiffs(from, rev[i]))])
         \o Concat([i \in 1..Len(app) |-> BlockSiacoinDiffs(to, app[i])]),
       SiafundOutputDiffs |->
         Concat([i \in 1..Len(rev) |-> Flip(BlockSiafundDiffs(from, rev[i]))])
         \o Concat([i \in 1..Len(app) |-> BlockSiafundDiffs(to, app[i])]),
       SiafundPoolDiffs |->
         Concat([i \in 1..Len(rev) |-> Flip(BlockPoolDiffs(from, rev[i]))])
         \o Concat([i \in 1..Len(app) |-> BlockPoolDiffs(to, app[i])]),
       Synced |-> synced]

\* the extensions of a path by at most m blocks that are valid paths no
\* longer than max
RECURSIVE Extensions(_, _, _)
Extensions(p, m, max) ==
  {p} \cup
  (IF m = 0 \/ Len(p) >= max THEN {}
   ELSE UNION {Extensions(Append(p, n), m - 1, max) :
                 n \in {x \in 1..NumBlocks : ValidPath(Append(p, x))}})

\* the moves the consensus set can make from path `from` in one change: it
\* reverts the blocks above `common` and applies those of `to` above it
NextPaths(from, max) ==
  {m \in UNION {{[common |-> c, to |-> p] :
                   p \in Extensions(SubSeq(from, 1, c), MaxApply, max)} :
                  c \in {x \in 0..Len(from) : Len(from) - x <= MaxRevert}} :
     ~(m.common = Len(from) /\ m.to = from)}

(***************************************************************************)
(* The wallet.                                                              *)
(***************************************************************************)
VARIABLES
  w,        \* the Wallet: its fields that the update code reads and writes
  DEBUG,    \* build.DEBUG: set by the build, never changes
  path      \* the consensus set's path, as last processed by the wallet

NewWallet ==
  [siacoinOutputs |-> EmptyMap,
   siafundOutputs |-> EmptyMap,
   siafundPool |-> 0,
   historicOutputs |-> EmptyMap,
   historicClaimStarts |-> EmptyMap,
   processedTransactions |-> <<>>,
   processedTransactionMap |-> EmptyMap,
   unconfirmedProcessedTransactions |-> <<>>,
   consensusSetHeight |-> 0]

Running(wal) == [w |-> wal, panic |-> FALSE]
Panicked(wal) == [w |-> wal, panic |-> TRUE]

\* one iteration of the loop over cc.SiacoinOutputDiffs
SiacoinOutputDiffStep(st, diff) ==
  IF st.panic \/ diff.SiacoinOutput.addr \notin keys THEN st
  ELSE LET exists == diff.ID \in DOMAIN st.w.siacoinOutputs
       IN  IF diff.Direction = DiffApply
           THEN IF DEBUG /\ exists THEN Panicked(st.w)
                ELSE Running([st.w EXCEPT !.siacoinOutputs = MapPut(@, diff.ID, diff.SiacoinOutput)])
           ELSE IF DEBUG /\ ~exists THEN Panicked(st.w)
                ELSE Running([st.w EXCEPT !.siacoinOutputs = MapDelete(@, diff.ID)])

\* (mutant) the diff is applied whatever the address of its output
SiafundOutputDiffStepAnyAddress(st, diff) ==
  IF st.panic THEN st
  ELSE LET exists == diff.ID \in DOMAIN st.w.siafundOutputs
       IN  IF diff.Direction = DiffApply
           THEN IF DEBUG /\ exists THEN Panicked(st.w)
                ELSE Running([st.w EXCEPT !.siafundOutputs = MapPut(@, diff.ID, diff.SiafundOutput)])
           ELSE IF DEBUG /\ ~exists THEN Panicked(st.w)
                ELSE Running([st.w EXCEPT !.siafundOutputs = MapDelete(@, diff.ID)])

\* one iteration of the loop over cc.SiafundOutputDiffs
SiafundOutputDiffStep(st, diff) ==
  IF st.panic \/ diff.SiafundOutput.addr \notin keys THEN st
  ELSE LET exists == diff.ID \in DOMAIN st.w.siafundOutputs
       IN  IF diff.Direction = DiffApply
           THEN IF DEBUG /\ exists THEN Panicked(st.w)
                ELSE Running([st.w EXCEPT !.siafundOutputs = MapPut(@, diff.ID, diff.SiafundOutput)])
           ELSE IF DEBUG /\ ~exists THEN Panicked(st.w)
                ELSE Running([st.w EXCEPT !.siafundOutputs = MapDelete(@, diff.ID)])

\* one iteration of the loop over cc.SiafundPoolDiffs
SiafundPoolDiffStep(st, diff) ==
  IF st.panic THEN st
  ELSE IF diff.Direction = DiffApply
       THEN Running([st.w EXCEPT !.siafundPool = diff.Adjusted])
       ELSE Running([st.w EXCEPT !.siafundPool = diff.Previous])

RECURSIVE SiacoinOutputDiffLoop(_, _)
SiacoinOutputDiffLoop(st, diffs) ==
  IF diffs = <<>> THEN st
  ELSE SiacoinOutputDiffLoop(SiacoinOutputDiffStep(st, Head(diffs)), Tail(diffs))

RECURSIVE SiafundOutputDiffLoop(_, _)
SiafundOutputDiffLoop(st, diffs) ==
  IF diffs = <<>> THEN st
  ELSE SiafundOutputDiffLoop(SiafundOutputDiffStep(st, Head(diffs)), Tail(diffs))

RECURSIVE SiafundPoolDiffLoop(_, _)
SiafundPoolDiffLoop(st, diffs) ==
  IF diffs = <<>> THEN st
  ELSE SiafundPoolDiffLoop(SiafundPoolDiffStep(st, Head(diffs)), Tail(diffs))

updateConfirmedSet(st, cc) ==
  SiafundPoolDiffLoop(
    SiafundOutputDiffLoop(
      SiacoinOutputDiffLoop(st, cc.SiacoinOutputDiffs),
      cc.SiafundOutputDiffs),
    cc.SiafundPoolDiffs)

\* the pop of the last element: s[:len(s)-1]
DropLast(s) == SubSeq(s, 1, Len(s) - 1)

\* (mutant) the entry is popped from the log and left in the index
RevertTransactionStepKeepsIndex(st, txn) ==
  IF st.panic THEN st
  ELSE LET pts == st.w.processedTransactions
           txid == TxnID(txn)
       IN  IF Len(pts) > 0 /\ txid = pts[Len(pts)].TransactionID
           THEN Running([st.w EXCEPT !.processedTransactions = DropLast(pts)])
           ELSE st

\* one iteration of the loop over block.Transactions, last to first
RevertTransactionStep(st, txn) ==
  IF st.panic THEN st
  ELSE LET pts == st.w.processedTransactions
           txid == TxnID(txn)
       IN  IF Len(pts) > 0 /\ txid = pts[Len(pts)].TransactionID
           THEN Running([st.w EXCEPT !.processedTransactions = DropLast(pts),
                                     !.processedTransactionMap = MapDelete(@, txid)])
           ELSE st

RECURSIVE RevertTransactionLoop(_, _, _)
RevertTransactionLoop(st, txns, i) ==
  IF i < 1 THEN st
  ELSE RevertTransactionLoop(RevertTransactionStep(st, txns[i]), txns, i - 1)

\* (mutant) the revert also forgets the value of the block's first payout
RevertMinerPayoutForgets(st, block) ==
  IF st.panic THEN st
  ELSE IF \E i \in 1..Len(block.payouts) : block.payouts[i].addr \in keys
       THEN IF Len(st.w.processedTransactions) = 0 THEN Panicked(st.w)
            ELSE Running([st.w EXCEPT
                   !.processedTransactions = DropLast(@),
                   !.processedTransactionMap = MapDelete(@, BlockID(block)),
                   !.historicOutputs = MapDelete(@, MinerPayoutID(block, 0))])
       ELSE st

\* the loop over block.MinerPayouts: at the first payout to a key of the
\* wallet the last entry is sliced off (a slice of an empty log panics)
RevertMinerPayout(st, block) ==
  IF st.panic THEN st
  ELSE IF \E i \in 1..Len(block.payouts) : block.payouts[i].addr \in keys
       THEN IF Len(st.w.processedTransactions) = 0 THEN Panicked(st.w)
            ELSE Running([st.w EXCEPT
                   !.processedTransactions = DropLast(@),
                   !.processedTransactionMap = MapDelete(@, BlockID(block))])
       ELSE st

\* (mutant) the height is decremented only when the block's entries were
\* popped from the log
RevertBlockStepHeightOnPop(st, block) ==
  LET st1 == RevertTransactionLoop(st, block.txns, Len(block.txns))
      st2 == RevertMinerPayout(st1, block)
  IN  IF st2.panic \/ st2.w.processedTransactions = st.w.processedTransactions
      THEN st2
      ELSE Running([st2.w EXCEPT
             !.consensusSetHeight = (@ + HeightMod - 1) % HeightMod])

\* one iteration of the loop over cc.RevertedBlocks
RevertBlockStep(st, block) ==
  LET st1 == RevertTransactionLoop(st, block.txns, Len(block.txns))
      st2 == RevertMinerPayout(st1, block)
  IN  IF st2.panic THEN st2
      ELSE Running([st2.w EXCEPT
             !.consensusSetHeight = (@ + HeightMod - 1) % HeightMod])

\* the loop over cc.RevertedBlocks, in order; the iterations lo..hi are
\* evaluated by halves (the first half to a value, then the second from
\* it), which keeps the evaluation of a long run shallow
RECURSIVE RevertBlockRange(_, _, _, _)
RevertBlockRange(st, blocks, lo, hi) ==
  IF lo > hi THEN st
  ELSE IF lo = hi THEN RevertBlockStep(st, blocks[lo])
  ELSE CHOOSE r \in {RevertBlockRange(half, blocks, (lo + hi) \div 2 + 1, hi) :
                       half \in {RevertBlockRange(st, blocks, lo, (lo + hi) \div 2)}} : TRUE

RevertBlockLoop(st, blocks) == RevertBlockRange(st, blocks, 1, Len(blocks))

revertHistory(st, cc) == RevertBlockLoop(st, cc.RevertedBlocks)

(***************************************************************************)
(* applyHistory.                                                            *)
(***************************************************************************)
\* a map after the writes m[ids[i]] = vals[i], i = 1..Len(ids), in order
RECURSIVE MapPutAll(_, _, _)
MapPutAll(m, ids, vals) ==
  IF ids = <<>> THEN m
  ELSE MapPutAll(MapPut(m, Head(ids), Head(vals)), Tail(ids), Tail(vals))

\* (mutant) the map is pointed at the slot that was last before the append
AppendProcessedStaleSlot(wal, pt) ==
  [wal EXCEPT !.processedTransactions = Append(@, pt),
              !.processedTransactionMap =
                 MapPut(@, pt.TransactionID, Len(wal.processedTransactions))]

\* append to w.processedTransactions and point the map at the new last slot
AppendProcessed(wal, pt) ==
  [wal EXCEPT !.processedTransactions = Append(@, pt),
              !.processedTransactionMap =
                 MapPut(@, pt.TransactionID, Len(wal.processedTransactions) + 1)]

MinerPayoutOutput(wal, mp) ==
  [FundType |-> "miner payout",
   MaturityHeight |-> (wal.consensusSetHeight + MaturityDelay) % HeightMod,
   WalletAddress |-> mp.addr \in keys,
   RelatedAddress |-> mp.addr,
   Value |-> mp.value]

\* the miner payout part of one applied block (the height is already raised)
ApplyMinerPayouts(wal, block) ==
  LET minerPT == [Transaction |-> EmptyTxn,
                  TransactionID |-> BlockID(block),
                  ConfirmationHeight |-> wal.consensusSetHeight,
                  ConfirmationTimestamp |-> block.ts,
                  Inputs |-> <<>>,
                  Outputs |-> [i \in 1..Len(block.payouts) |->
                                 MinerPayoutOutput(wal, block.payouts[i])]]
      relevant == \E i \in 1..Len(block.payouts) : block.payouts[i].addr \in keys
      wal1 == [wal EXCEPT !.historicOutputs =
                 MapPutAll(@, [i \in 1..Len(block.payouts) |-> MinerPayoutID(block, i - 1)],
                              [i \in 1..Len(block.payouts) |-> block.payouts[i].value])]
  IN  IF relevant THEN AppendProcessed(wal1, minerPT) ELSE wal1

SiacoinInput(historic, sci) ==
  [FundType |-> "siacoin input",
   WalletAddress |-> sci.addr \in keys,
   RelatedAddress |-> sci.addr,
   Value |-> MapGet(historic, sci.parent)]

SiacoinOutput(height, sco) ==
  [FundType |-> "siacoin output",
   MaturityHeight |-> height,
   WalletAddress |-> sco.addr \in keys,
   RelatedAddress |-> sco.addr,
   Value |-> sco.value]

SiafundInput(historic, sfi) ==
  [FundType |-> "siafund input",
   WalletAddress |-> sfi.addr \in keys,
   RelatedAddress |-> sfi.addr,
   Value |-> MapGet(historic, sfi.parent)]

\* claimValue := w.siafundPool.Sub(w.historicClaimStarts[sfi.ParentID]).Mul(sfiValue)
\* (the pool level is never below a recorded claim start in this model)
ClaimValue(wal, historic, sfi) ==
  (wal.siafundPool - MapGet(wal.historicClaimStarts, sfi.parent))
    * MapGet(historic, sfi.parent)

\* (mutant) the claim output matures at the confirmation height
ClaimOutputMaturesAtOnce(wal, historic, sfi) ==
  [FundType |-> "claim output",
   MaturityHeight |-> wal.consensusSetHeight,
   WalletAddress |-> sfi.addr \in keys,
   RelatedAddress |-> sfi.claimAddr,
   Value |-> ClaimValue(wal, historic, sfi)]

ClaimOutput(wal, historic, sfi) ==
  [FundType |-> "claim output",
   MaturityHeight |-> (wal.consensusSetHeight + MaturityDelay) % HeightMod,
   WalletAddress |-> sfi.addr \in keys,
   RelatedAddress |-> sfi.claimAddr,
   Value |-> ClaimValue(wal, historic, sfi)]

SiafundOutput(height, sfo) ==
  [FundType |-> "siafund output",
   MaturityHeight |-> height,
   WalletAddress |-> sfo.addr \in keys,
   RelatedAddress |-> sfo.addr,
   Value |-> sfo.value]

MinerFee(fee) ==
  [FundType |-> "miner fee",
   MaturityHeight |-> 0,
   WalletAddress |-> FALSE,
   RelatedAddress |-> "",
   Value |-> fee]

\* one iteration of the loop over block.Transactions
ApplyTransaction(wal, block, txn) ==
  LET h0 == wal.historicOutputs
      h1 == MapPutAll(h0, [i \in 1..Len(txn.sco) |-> SiacoinOutputID(txn, i - 1)],
                          [i \in 1..Len(txn.sco) |-> txn.sco[i].value])
      h2 == MapPutAll(h1, [i \in 1..Len(txn.sfo) |-> SiafundOutputID(txn, i - 1)],
                          [i \in 1..Len(txn.sfo) |-> txn.sfo[i].value])
      relevant ==
        \/ \E i \in 1..Len(txn.sci) : txn.sci[i].addr \in keys
        \/ \E i \in 1..Len(txn.sco) : txn.sco[i].addr \in keys
        \/ \E i \in 1..Len(txn.sfi) : txn.sfi[i].addr \in keys
        \/ \E i \in 1..Len(txn.sfo) : txn.sfo[i].addr \in keys
      pt == [Transaction |-> txn,
             TransactionID |-> TxnID(txn),
             ConfirmationHeight |-> wal.consensusSetHeight,
             ConfirmationTimestamp |-> block.ts,
             Inputs |->
               [i \in 1..Len(txn.sci) |-> SiacoinInput(h0, txn.sci[i])]
               \o [i \in 1..Len(txn.sfi) |-> SiafundInput(h1, txn.sfi[i])],
             Outputs |->
               [i \in 1..Len(txn.sco) |-> SiacoinOutput(wal.consensusSetHeight, txn.sco[i])]
               \o Concat([i \in 1..Len(txn.sfi) |-> << ClaimOutput(wal, h1, txn.sfi[i]) >>])
               \o [i \in 1..Len(txn.sfo) |-> SiafundOutput(wal.consensusSetHeight, txn.sfo[i])]
               \o [i \in 1..Len(txn.fees) |-> MinerFee(txn.fees[i])]]
      wal1 == [wal EXCEPT
                 !.historicOutputs = h2,
                 !.historicClaimStarts =
                    MapPutAll(@, [i \in 1..Len(txn.sfo) |-> SiafundOutputID(txn, i - 1)],
                                 [i \in 1..Len(txn.sfo) |-> txn.sfo[i].claimStart])]
  IN  IF relevant THEN AppendProcessed(wal1, pt) ELSE wal1

RECURSIVE ApplyTransactionLoop(_, _, _)
ApplyTransactionLoop(wal, block, txns) ==
  IF txns = <<>> THEN wal
  ELSE ApplyTransactionLoop(ApplyTransaction(wal, block, Head(txns)), block, Tail(txns))

\* (mutant) the miner payout entry is appended after the transactions
ApplyBlockStepPayoutLast(wal, block) ==
  LET wal1 == [wal EXCEPT !.consensusSetHeight = (@ + 1) % HeightMod]
  IN  ApplyMinerPayouts(ApplyTransactionLoop(wal1, block, block.txns), block)

\* one iteration of the loop over cc.AppliedBlocks
ApplyBlockStep(wal, block) ==
  LET wal1 == [wal EXCEPT !.consensusSetHeight = (@ + 1) % HeightMod]
  IN  ApplyTransactionLoop(ApplyMinerPayouts(wal1, block), block, block.txns)

\* the loop over cc.AppliedBlocks, in order, evaluated by halves
RECURSIVE ApplyBlockRange(_, _, _, _)
ApplyBlockRange(wal, blocks, lo, hi) ==
  IF lo > hi THEN wal
  ELSE IF lo = hi THEN ApplyBlockStep(wal, blocks[lo])
  ELSE CHOOSE r \in {ApplyBlockRange(half, blocks, (lo + hi) \div 2 + 1, hi) :
                       half \in {ApplyBlockRange(wal, blocks, lo, (lo + hi) \div 2)}} : TRUE

ApplyBlockLoop(wal, blocks) == ApplyBlockRange(wal, blocks, 1, Len(blocks))

applyHistory(st, cc) ==
  IF st.panic THEN st ELSE Running(ApplyBlockLoop(st.w, cc.AppliedBlocks))

(***************************************************************************)
(* The body of ReceiveUpdatedUnconfirmedTransactions, under the lock.       *)
(***************************************************************************)
UnconfirmedSiacoinOutput(sco) ==
  [FundType |-> "siacoin output",
   MaturityHeight |-> MaxUint64,
   WalletAddress |-> sco.addr \in keys,
   RelatedAddress |-> sco.addr,
   Value |-> sco.value]

\* (mutant) the siafund outputs are recorded as the apply pass records them
UnconfirmedTransactionWithFunds(wal, txn) ==
  LET relevant ==
        \/ \E i \in 1..Len(txn.sci) : txn.sci[i].addr \in keys
        \/ \E i \in 1..Len(txn.sco) : txn.sco[i].addr \in keys
      pt == [Transaction |-> txn,
             TransactionID |-> TxnID(txn),
             ConfirmationHeight |-> MaxUint64,
             ConfirmationTimestamp |-> MaxUint64,
             Inputs |-> [i \in 1..Len(txn.sci) |-> SiacoinInput(wal.historicOutputs, txn.sci[i])],
             Outputs |->
               [i \in 1..Len(txn.sco) |-> UnconfirmedSiacoinOutput(txn.sco[i])]
               \o [i \in 1..Len(txn.fees) |-> MinerFee(txn.fees[i])]]
      wal1 == [wal EXCEPT
                 !.historicOutputs =
                    MapPutAll(@, [i \in 1..Len(txn.sco) |-> SiacoinOutputID(txn, i - 1)],
                                 [i \in 1..Len(txn.sco) |-> txn.sco[i].value]),
                 !.historicClaimStarts =
                    MapPutAll(@, [i \in 1..Len(txn.sfo) |-> SiafundOutputID(txn, i - 1)],
                                 [i \in 1..Len(txn.sfo) |-> txn.sfo[i].claimStart])]
  IN  IF relevant
      THEN [wal1 EXCEPT !.unconfirmedProcessedTransactions = Append(@, pt)]
      ELSE wal1

\* one iteration of the loop over txns
UnconfirmedTransaction(wal, txn) ==
  LET h0 == wal.historicOutputs
      relevant ==
        \/ \E i \in 1..Len(txn.sci) : txn.sci[i].addr \in keys
        \/ \E i \in 1..Len(txn.sco) : txn.sco[i].addr \in keys
      pt == [Transaction |-> txn,
             TransactionID |-> TxnID(txn),
             ConfirmationHeight |-> MaxUint64,
             ConfirmationTimestamp |-> MaxUint64,
             Inputs |-> [i \in 1..Len(txn.sci) |-> SiacoinInput(h0, txn.sci[i])],
             Outputs |->
               [i \in 1..Len(txn.sco) |-> UnconfirmedSiacoinOutput(txn.sco[i])]
               \o [i \in 1..Len(txn.fees) |-> MinerFee(txn.fees[i])]]
      wal1 == [wal EXCEPT !.historicOutputs =
                 MapPutAll(@, [i \in 1..Len(txn.sco) |-> SiacoinOutputID(txn, i - 1)],
                              [i \in 1..Len(txn.sco) |-> txn.sco[i].value])]
  IN  IF relevant
      THEN [wal1 EXCEPT !.unconfirmedProcessedTransactions = Append(@, pt)]
      ELSE wal1

RECURSIVE UnconfirmedLoop(_, _)
UnconfirmedLoop(wal, txns) ==
  IF txns = <<>> THEN wal
  ELSE UnconfirmedLoop(UnconfirmedTransaction(wal, Head(txns)), Tail(txns))

\* (mutant) the previous view is kept and the new entries are appended to it
receiveUnconfirmedKeepsView(wal, txns) == UnconfirmedLoop(wal, txns)

receiveUnconfirmed(wal, txns) ==
  UnconfirmedLoop([wal EXCEPT !.unconfirmedProcessedTransactions = <<>>], txns)

\* the candidate lists the transaction pool hands over
CandidateTxns == {TxnCatalogue[n] : n \in {2, 3, 5}}
Candidates == UNION {[1..n -> CandidateTxns] : n \in 0..MaxCand}

(***************************************************************************)
(* The entry points.  tg is the wallet's ThreadGroup (the shutdown gate),   *)
(* mu its lock.                                                             *)
(***************************************************************************)
VARIABLES
  stopped,   \* tg: Stop has been called
  tgCount,   \* tg: calls that have done Add and not yet Done
  mu,        \* the holder of w.mu, or "" when it is free
  defrag,    \* threadedDefragWallet goroutines dispatched and not yet started
  fatal,     \* a call has ended in a panic
  pc,        \* where each thread is in its call
  inflight,  \* the arguments of the calls in flight
  faulty,    \* changes sent that do not start from the consensus set's path
  trip,      \* history: the wallet before and after the block last applied alone
  contractor, \* the Contractor: its contracts and the hostdb it asks
  Release,   \* build.Release
  offline    \* history: the last call of IsOffline and what it returned

vars == <<w, DEBUG, path, stopped, tgCount, mu, defrag, fatal, pc, inflight, faulty, trip,
          contractor, Release, offline>>

(***************************************************************************)
(* The contractor's uptime test (modules/renter/contractor/uptime.go).      *)
(* A host is a record with its ScanHistory, a sequence of scans, each a     *)
(* record [Timestamp, Success]; time is counted in seconds.                 *)
(***************************************************************************)
\* the minimum number of scans required to judge whether a host is offline
uptimeMinScans == 3

\* the window of the dev build, the standard build and the testing build
uptimeWindowDev == 1800
uptimeWindowStandard == 604800
uptimeWindowTesting == 15

\* uptimeWindow: chosen by build.Release when the package is initialised
uptimeWindow ==
  CASE Release = "dev" -> uptimeWindowDev
    [] Release = "standard" -> uptimeWindowStandard
    [] Release = "testing" -> uptimeWindowTesting

\* a Contractor with no contract and a hostdb that knows no host
NewContractor == [contracts |-> EmptyMap, hdb |-> EmptyMap]

\* before the first call of IsOffline
NoCall == [called |-> FALSE]

\* c.hdb.Host(addr): the host and whether the hostdb knows it
HostOf(c, addr) ==
  IF addr \in DOMAIN c.hdb THEN [ok |-> TRUE, host |-> c.hdb[addr]]
  ELSE [ok |-> FALSE]

\* sort.IsSorted(host.ScanHistory): no scan is before the one in front of it
IsSorted(hist) ==
  \A i \in 2..Len(hist) : ~(hist[i].Timestamp < hist[i - 1].Timestamp)

\* the scan from newest to oldest for the first successful scan at or below
\* position i: its timestamp, or windowStart when there is none
RECURSIVE WindowStartFrom(_, _, _)
WindowStartFrom(hist, i, windowStart) ==
  IF i < 1 THEN windowStart
  ELSE IF hist[i].Success THEN hist[i].Timestamp
  ELSE WindowStartFrom(hist, i - 1, windowStart)

\* what a call returns: the boolean, or the critical error of the debug build
Returns(b) == [critical |-> FALSE, offline |-> b]
Critical == [critical |-> TRUE, offline |-> FALSE]

\* isOffline with a window that has to be exceeded
isOfflineStrict(c, id) ==
  IF id \notin DOMAIN c.contracts THEN Returns(FALSE)
  ELSE LET h == HostOf(c, c.contracts[id].NetAddress)
       IN IF ~h.ok THEN Returns(FALSE)
          ELSE LET hist == h.host.ScanHistory
                   numScans == Len(hist)
               IN IF DEBUG /\ ~IsSorted(hist) THEN Critical
                  ELSE IF numScans < uptimeMinScans THEN Returns(FALSE)
                  ELSE IF \E i \in (numScans - uptimeMinScans + 1)..numScans :
                            hist[i].Success
                       THEN Returns(FALSE)
                  ELSE LET windowEnd == hist[numScans].Timestamp
                           windowStart ==
                             WindowStartFrom(hist, numScans, hist[1].Timestamp)
                       IN Returns(windowEnd - windowStart > uptimeWindow)

\* isOffline: whether the host of contract id is to be taken as offline
isOffline(c, id) ==
  IF id \notin DOMAIN c.contracts THEN Returns(FALSE)
  ELSE LET h == HostOf(c, c.contracts[id].NetAddress)
       IN IF ~h.ok THEN Returns(FALSE)
          ELSE LET hist == h.host.ScanHistory
                   numScans == Len(hist)
               IN IF DEBUG /\ ~IsSorted(hist) THEN Critical
                  ELSE IF numScans < uptimeMinScans THEN Returns(FALSE)
                  ELSE IF \E i \in (numScans - uptimeMinScans + 1)..numScans :
                            hist[i].Success
                       THEN Returns(FALSE)
                  ELSE LET windowEnd == hist[numScans].Timestamp
                           windowStart ==
                             WindowStartFrom(hist, numScans, hist[1].Timestamp)
                       IN Returns(windowEnd - windowStart >= uptimeWindow)

\* what a round trip is to restore
Ledger(wal) ==
  [siacoinOutputs |-> wal.siacoinOutputs,
   siafundOutputs |-> wal.siafundOutputs,
   siafundPool |-> wal.siafundPool,
   consensusSetHeight |-> wal.consensusSetHeight,
   processedTransactions |-> wal.processedTransactions,
   processedTransactionMap |-> wal.processedTransactionMap]

NoTrip == [phase |-> "none", before |-> Ledger(NewWallet), applied |-> Ledger(NewWallet)]

\* the consensus set ("cs") calls ProcessConsensusChange, the transaction
\* pool ("tp") ReceiveUpdatedUnconfirmedTransactions, "cl" closes the wallet,
\* "df" is the maintenance goroutine
Threads == {"cs", "tp", "cl", "df"}

NoChange ==
  [RevertedBlocks |-> <<>>, AppliedBlocks |-> <<>>, SiacoinOutputDiffs |-> <<>>,
   SiafundOutputDiffs |-> <<>>, SiafundPoolDiffs |-> <<>>, Synced |-> FALSE]
NoCalls == [cc |-> NoChange, txns |-> <<>>, panicking |-> FALSE]

(***************************************************************************)
(* Spec: whole calls, one at a time, from a consensus set whose changes     *)
(* follow its path.  cc.Synced decides only the dispatch of the             *)
(* maintenance goroutine, which SpecConc covers; here it is unset.          *)
(***************************************************************************)
\* the three passes of ProcessConsensusChange, under the lock
processConsensusChange(wal, cc) ==
  applyHistory(revertHistory(updateConfirmedSet(Running(wal), cc), cc), cc)

\* ProcessConsensusChange as one step, called by the consensus set as it
\* moves from path to m.to
ProcessConsensusChange(m) ==
  IF stopped
  THEN UNCHANGED vars
  ELSE \E st \in {processConsensusChange(w, ConsensusChange(path, m.common, m.to, FALSE))} :
         /\ w' = st.w
         /\ fatal' = (fatal \/ st.panic)
         /\ path' = m.to
         /\ trip' = IF m.common = Len(path) /\ Len(m.to) = Len(path) + 1
                      THEN [phase |-> "applied", before |-> Ledger(w),
                            applied |-> Ledger(st.w)]
                    ELSE IF trip.phase = "applied" /\ m.common = Len(path) - 1
                            /\ Len(m.to) = Len(path) - 1
                      THEN [trip EXCEPT !.phase = "reverted"]
                    ELSE NoTrip
         /\ UNCHANGED <<DEBUG, stopped, tgCount, mu, defrag, pc, inflight, faulty, contractor, Release, offline>>

\* ReceiveUpdatedUnconfirmedTransactions as one step
ReceiveUpdatedUnconfirmedTransactions(txns) ==
  IF stopped
  THEN UNCHANGED vars
  ELSE /\ UNCHANGED <<DEBUG, path, stopped, tgCount, mu, defrag, fatal, pc, inflight, faulty, trip, contractor, Release, offline>>
       /\ w' = receiveUnconfirmed(w, txns)

\* Close: tg.Stop; no call is in flight between two whole calls
Close ==
  /\ ~stopped
  /\ stopped' = TRUE
  /\ UNCHANGED <<w, DEBUG, path, tgCount, mu, defrag, fatal, pc, inflight, faulty, trip, contractor, Release, offline>>

\* The consensus set of this specification sends only changes that agree
\* with the wallet, so no pass trips a check of the debug build; the debug
\* build is taken, the one in which a tripped check would show as fatal.
Init ==
  /\ w = NewWallet
  /\ DEBUG = TRUE
  /\ path = <<>>
  /\ stopped = FALSE
  /\ tgCount = 0
  /\ mu = ""
  /\ defrag = 0
  /\ fatal = FALSE
  /\ pc = [t \in Threads |-> "idle"]
  /\ inflight = NoCalls
  /\ faulty = 0
  /\ trip = NoTrip
  /\ contractor = NewContractor
  /\ Release = "standard"
  /\ offline = NoCall

\* the moves of Spec's consensus set: it holds the first MaxBlock blocks
\* of the catalogue
SpecMoves(from) ==
  {m \in NextPaths(from, MaxChain) : \A j \in 1..Len(m.to) : m.to[j] <= MaxBlock}

Next ==
  \/ \E m \in SpecMoves(path) : ProcessConsensusChange(m)
  \/ \E txns \in Candidates : ReceiveUpdatedUnconfirmedTransactions(txns)
  \/ Close

Spec == Init /\ [][Next]_vars

(***************************************************************************)
(* SpecChain: the calls of ProcessConsensusChange alone, from a consensus   *)
(* set that holds the whole catalogue: also the block that nothing of the   *)
(* wallet's relevance test sees, and the block that spends a miner payout   *)
(* and a claim MaturityDelay blocks after them.                             *)
(***************************************************************************)
NextChain ==
  \/ \E m \in NextPaths(path, MaxChain) : ProcessConsensusChange(m)
  \/ Close

SpecChain == Init /\ [][NextChain]_vars

NeverFatal == ~fatal

(***************************************************************************)
(* C1.  Round trip: when a change applies one block and the next change     *)
(* reverts that block, the siacoin and siafund ledgers, the pool level, the *)
(* tracked height, the confirmed log and its index are again exactly what   *)
(* they were before the block was applied.                                  *)
(***************************************************************************)
RoundTripRestores == trip.phase = "reverted" => Ledger(w) = trip.before

\* a block that added to both ledgers' state, the pool level and the log
\* has been applied and reverted
RoundTripWitness ==
  /\ trip.phase = "reverted"
  /\ trip.applied.siacoinOutputs # trip.before.siacoinOutputs
  /\ trip.applied.siafundPool # trip.before.siafundPool
  /\ Len(trip.applied.processedTransactions) >= Len(trip.before.processedTransactions) + 2

(***************************************************************************)
(* C2.  Ordering: the confirmed log is sorted by non-decreasing             *)
(* confirmation height; two entries of one height are in the order of the   *)
(* block's transactions, and the miner payout entry of a height comes       *)
(* before every transaction entry of that height.                           *)
(***************************************************************************)
IsMinerPayoutEntry(pt) == pt.TransactionID[1] = "blk"

\* the catalogue block of height h of the consensus set's path
IsBlockHeight(h) == \E p \in 1..Len(path) : HeightOf(path, p) = h
BlockAtHeight(h) == BlockCatalogue[path[PosAt(path, h)]]

\* the place of an entry within its block: 0 for the miner payout entry,
\* else the position of its transaction among the block's
PlaceInBlock(pt) ==
  IF IsMinerPayoutEntry(pt) THEN 0
  ELSE LET txns == BlockAtHeight(pt.ConfirmationHeight).txns
       IN  CHOOSE k \in 1..Len(txns) : TxnID(txns[k]) = pt.TransactionID

LogOrdered ==
  LET pts == w.processedTransactions
  IN  \A i, j \in 1..Len(pts) :
        i < j =>
          /\ pts[i].ConfirmationHeight <= pts[j].ConfirmationHeight
          /\ pts[i].ConfirmationHeight = pts[j].ConfirmationHeight =>
               /\ IsBlockHeight(pts[i].ConfirmationHeight)
               /\ \E k \in 1..Len(BlockAtHeight(pts[j].ConfirmationHeight).txns) :
                    TxnID(BlockAtHeight(pts[j].ConfirmationHeight).txns[k])
                      = pts[j].TransactionID
               /\ PlaceInBlock(pts[i]) < PlaceInBlock(pts[j])

\* after a reorganisation (block 2 was applied and is gone from the path) the
\* log holds the payout entry and both transactions of block 6 after an
\* entry of a lower height
LogOrderedWitness ==
  LET pts == w.processedTransactions
  IN  /\ MinerPayoutID(BlockCatalogue[2], 0) \in DOMAIN w.historicOutputs
      /\ \A h \in 1..Len(path) : path[h] # 2
      /\ Len(pts) >= 4
      /\ pts[Len(pts) - 2].TransactionID = BlockID(BlockCatalogue[6])
      /\ pts[Len(pts) - 1].TransactionID = TxnID(TxnCatalogue[2])
      /\ pts[Len(pts)].TransactionID = TxnID(TxnCatalogue[3])
      /\ pts[1].ConfirmationHeight < pts[Len(pts)].ConfirmationHeight

(***************************************************************************)
(* C3.  Claim arithmetic: every siafund input of a transaction in the       *)
(* confirmed log has, in that entry, a claim output of value                *)
(* (P2 - P1) * N, where P2 is the pool level once the transaction's block   *)
(* is applied, P1 the pool level once the block that created the spent      *)
(* output was applied, and N the quantity of the spent output.              *)
(***************************************************************************)
ExpectedClaim(pt, sfi) ==
  LET P2 == PoolAfter(path, PosAt(path, pt.ConfirmationHeight))
      P1 == PoolAfter(path, CreatedAt(path, sfi.parent[2]))
      N == TxnCatalogue[sfi.parent[2]].sfo[sfi.parent[3] + 1].value
  IN  (P2 - P1) * N

ClaimArithmetic ==
  \A i \in 1..Len(w.processedTransactions) :
    LET pt == w.processedTransactions[i]
        txn == pt.Transaction
    IN  \A k \in 1..Len(txn.sfi) :
          /\ pt.Outputs[Len(txn.sco) + k].FundType = "claim output"
          /\ pt.Outputs[Len(txn.sco) + k].Value = ExpectedClaim(pt, txn.sfi[k])

(***************************************************************************)
(* C8.  Unconfirmed view replacement: a registered call of                  *)
(* ReceiveUpdatedUnconfirmedTransactions leaves a view whose entries are    *)
(* built from the candidates, in candidate order, and from nothing else;    *)
(* an empty candidate list leaves an empty view.                            *)
(***************************************************************************)
ViewTxns(wal) ==
  [k \in 1..Len(wal.unconfirmedProcessedTransactions) |->
     wal.unconfirmedProcessedTransactions[k].Transaction]

InView(wal, txn) ==
  \E k \in 1..Len(wal.unconfirmedProcessedTransactions) :
    wal.unconfirmedProcessedTransactions[k].Transaction = txn

\* the candidates that made it into the view, in candidate order
RECURSIVE Kept(_, _)
Kept(wal, txns) ==
  IF txns = <<>> THEN <<>>
  ELSE (IF InView(wal, Head(txns)) THEN << Head(txns) >> ELSE <<>>) \o Kept(wal, Tail(txns))

ViewReplaced ==
  [][\A txns \in Candidates :
       (~stopped /\ ReceiveUpdatedUnconfirmedTransactions(txns)) =>
         /\ ViewTxns(w') = Kept(w', txns)
         /\ \A k \in 1..Len(w'.unconfirmedProcessedTransactions) :
              /\ w'.unconfirmedProcessedTransactions[k].TransactionID
                   = TxnID(w'.unconfirmedProcessedTransactions[k].Transaction)
              /\ w'.unconfirmedProcessedTransactions[k].ConfirmationHeight = MaxUint64
         /\ txns = <<>> => w'.unconfirmedProcessedTransactions = <<>>]_vars

\* a view of two entries in an order that is not the catalogue's
ViewReplacedWitness ==
  /\ Len(w.unconfirmedProcessedTransactions) = 2
  /\ w.unconfirmedProcessedTransactions[1].TransactionID = TxnID(TxnCatalogue[3])
  /\ w.unconfirmedProcessedTransactions[2].TransactionID = TxnID(TxnCatalogue[2])

(***************************************************************************)
(* C9.  Frame of the unconfirmed rebuild.  As claimed: a call changes       *)
(* nothing but the unconfirmed view.                                        *)
(***************************************************************************)
UnconfirmedFrameAll ==
  [][\A txns \in Candidates :
       ReceiveUpdatedUnconfirmedTransactions(txns) =>
         /\ Ledger(w') = Ledger(w)
         /\ w'.historicOutputs = w.historicOutputs
         /\ w'.historicClaimStarts = w.historicClaimStarts]_vars

(***************************************************************************)
(* C9, amended.  A call leaves both ledgers, the pool level, the claim      *)
(* starts, the confirmed log, its index and the tracked height unchanged;   *)
(* of the historic values it changes none that is recorded, and records     *)
(* the value of every siacoin output of every candidate and no other.       *)
(***************************************************************************)
CandidateOutputIDs(txns) ==
  UNION {{SiacoinOutputID(txns[k], i - 1) : i \in 1..Len(txns[k].sco)} : k \in 1..Len(txns)}

UnconfirmedFrame ==
  [][\A txns \in Candidates :
       (~stopped /\ ReceiveUpdatedUnconfirmedTransactions(txns)) =>
         /\ Ledger(w') = Ledger(w)
         /\ w'.historicClaimStarts = w.historicClaimStarts
         /\ DOMAIN w'.historicOutputs = DOMAIN w.historicOutputs \cup CandidateOutputIDs(txns)
         /\ \A id \in DOMAIN w.historicOutputs : w'.historicOutputs[id] = w.historicOutputs[id]
         /\ \A id \in CandidateOutputIDs(txns) :
              w'.historicOutputs[id] = SiacoinOutputOf(id).value]_vars

\* the view holds transaction 3 and the values of its outputs are recorded,
\* though no block that holds transaction 3 has ever been applied
UnconfirmedFrameWitness ==
  /\ InView(w, TxnCatalogue[3])
  /\ SiacoinOutputID(TxnCatalogue[3], 1) \in DOMAIN w.historicOutputs
  /\ MinerPayoutID(BlockCatalogue[4], 0) \notin DOMAIN w.historicOutputs
  /\ MinerPayoutID(BlockCatalogue[6], 0) \notin DOMAIN w.historicOutputs
  /\ w.processedTransactions # <<>>

(***************************************************************************)
(* SpecConc: the calls step by step.  The consensus set, the transaction    *)
(* pool, the closer of the wallet and the maintenance goroutine run         *)
(* concurrently; the build is debug or release; the consensus set may send  *)
(* a change that does not start from its path (one the wallet has seen      *)
(* already, or one for blocks it never saw).                                *)
(***************************************************************************)
ConcMaxChain == 1   \* longest path of blocks
ConcBlocks == 1     \* the blocks in use are 1..ConcBlocks of the catalogue
ConcTxns == 2       \* the candidates are among transactions 1..ConcTxns
ConcMaxStep == 1    \* most blocks reverted, and most applied, by one change
ConcMaxCand == 1    \* most candidates of one unconfirmed rebuild
MaxFaulty == 1      \* most changes that do not start from the path
MaxDefrag == 1      \* most maintenance goroutines dispatched and not finished

ConcPaths ==
  {p \in Extensions(<<>>, ConcMaxChain, ConcMaxChain) :
     \A j \in 1..Len(p) : p[j] <= ConcBlocks}

ConcMoves(from) ==
  {m \in NextPaths(from, ConcMaxChain) :
     /\ m.to \in ConcPaths
     /\ Len(from) - m.common <= ConcMaxStep
     /\ Len(m.to) - m.common <= ConcMaxStep}

ConcCandidates ==
  {txns \in Candidates :
     /\ Len(txns) <= ConcMaxCand
     /\ \A k \in 1..Len(txns) : TxnNum(txns[k]) <= ConcTxns}

\* tg.Add returns an error once tg.Stop has been called
tgAddErr == stopped

\* (mutant) the call goes on when the registration is refused
PCCAddIgnoresStop(from, m, synced) ==
  /\ pc["cs"] \in {"idle", "rejected"}
  /\ from = path \/ faulty < MaxFaulty
  /\ synced => defrag + (IF pc["df"] = "idle" THEN 0 ELSE 1) < MaxDefrag
  /\ tgCount' = tgCount + 1
  /\ inflight' = [inflight EXCEPT
                    !.cc = ConsensusChange(from, m.common, m.to, synced),
                    !.panicking = FALSE]
  /\ path' = m.to
  /\ faulty' = IF from = path THEN faulty ELSE faulty + 1
  /\ pc' = [pc EXCEPT !["cs"] = "lock"]
  /\ UNCHANGED <<w, DEBUG, stopped, mu, defrag, fatal, trip, contractor, Release, offline>>

\* line 222-230: the call, with its argument, up to the registration
PCCAdd(from, m, synced) ==
  /\ pc["cs"] \in {"idle", "rejected"}
  /\ from = path \/ faulty < MaxFaulty
  /\ synced => defrag + (IF pc["df"] = "idle" THEN 0 ELSE 1) < MaxDefrag
  /\ IF tgAddErr
     THEN /\ pc' = [pc EXCEPT !["cs"] = "rejected"]
          /\ UNCHANGED <<w, DEBUG, path, stopped, tgCount, mu, defrag, fatal,
                         inflight, faulty, trip, contractor, Release, offline>>
     ELSE /\ tgCount' = tgCount + 1
          /\ inflight' = [inflight EXCEPT
                            !.cc = ConsensusChange(from, m.common, m.to, synced),
                            !.panicking = FALSE]
          /\ path' = m.to
          /\ faulty' = IF from = path THEN faulty ELSE faulty + 1
          /\ pc' = [pc EXCEPT !["cs"] = "lock"]
          /\ UNCHANGED <<w, DEBUG, stopped, mu, defrag, fatal, trip, contractor, Release, offline>>

\* (mutant) the call goes on without the lock being free
PCCLockNoWait ==
  /\ pc["cs"] = "lock"
  /\ mu' = "cs"
  /\ pc' = [pc EXCEPT !["cs"] = "update"]
  /\ UNCHANGED <<w, DEBUG, path, stopped, tgCount, defrag, fatal, inflight, faulty, trip, contractor, Release, offline>>

\* w.mu.Lock()
PCCLock ==
  /\ pc["cs"] = "lock"
  /\ mu = ""
  /\ mu' = "cs"
  /\ pc' = [pc EXCEPT !["cs"] = "update"]
  /\ UNCHANGED <<w, DEBUG, path, stopped, tgCount, defrag, fatal, inflight, faulty, trip, contractor, Release, offline>>

\* w.updateConfirmedSet(cc); a panic leaves through the deferred calls
PCCUpdate ==
  /\ pc["cs"] = "update"
  /\ \E st \in {updateConfirmedSet(Running(w), inflight.cc)} :
       /\ w' = st.w
       /\ inflight' = [inflight EXCEPT !.panicking = st.panic]
       /\ pc' = [pc EXCEPT !["cs"] = IF st.panic THEN "unlock" ELSE "history"]
  /\ UNCHANGED <<DEBUG, path, stopped, tgCount, mu, defrag, fatal, faulty, trip, contractor, Release, offline>>

\* (mutant) the maintenance goroutine is dispatched whatever cc.Synced is
PCCHistoryDispatchesAlways ==
  /\ pc["cs"] = "history"
  /\ \E st \in {applyHistory(revertHistory(Running(w), inflight.cc), inflight.cc)} :
       /\ w' = st.w
       /\ inflight' = [inflight EXCEPT !.panicking = st.panic]
       /\ defrag' = IF ~st.panic THEN defrag + 1 ELSE defrag
  /\ pc' = [pc EXCEPT !["cs"] = "unlock"]
  /\ UNCHANGED <<DEBUG, path, stopped, tgCount, mu, fatal, faulty, trip, contractor, Release, offline>>

\* w.revertHistory(cc); w.applyHistory(cc); if cc.Synced { go ... }
PCCHistory ==
  /\ pc["cs"] = "history"
  /\ \E st \in {applyHistory(revertHistory(Running(w), inflight.cc), inflight.cc)} :
       /\ w' = st.w
       /\ inflight' = [inflight EXCEPT !.panicking = st.panic]
       /\ defrag' = IF ~st.panic /\ inflight.cc.Synced THEN defrag + 1 ELSE defrag
  /\ pc' = [pc EXCEPT !["cs"] = "unlock"]
  /\ UNCHANGED <<DEBUG, path, stopped, tgCount, mu, fatal, faulty, trip, contractor, Release, offline>>

\* defer w.mu.Unlock()
PCCUnlock ==
  /\ pc["cs"] = "unlock"
  /\ mu' = ""
  /\ pc' = [pc EXCEPT !["cs"] = "done"]
  /\ UNCHANGED <<w, DEBUG, path, stopped, tgCount, defrag, fatal, inflight, faulty, trip, contractor, Release, offline>>

\* (mutant) a panicking call leaves without deregistering
PCCDoneNotOnPanic ==
  /\ pc["cs"] = "done"
  /\ tgCount' = IF inflight.panicking THEN tgCount ELSE tgCount - 1
  /\ fatal' = (fatal \/ inflight.panicking)
  /\ pc' = [pc EXCEPT !["cs"] = IF inflight.panicking THEN "panicked" ELSE "idle"]
  /\ inflight' = [inflight EXCEPT !.cc = NoChange, !.panicking = FALSE]
  /\ UNCHANGED <<w, DEBUG, path, stopped, mu, defrag, faulty, trip, contractor, Release, offline>>

\* defer w.tg.Done(); then the call returns, or its panic reaches the caller
PCCDone ==
  /\ pc["cs"] = "done"
  /\ tgCount' = tgCount - 1
  /\ fatal' = (fatal \/ inflight.panicking)
  /\ pc' = [pc EXCEPT !["cs"] = IF inflight.panicking THEN "panicked" ELSE "idle"]
  /\ inflight' = [inflight EXCEPT !.cc = NoChange, !.panicking = FALSE]
  /\ UNCHANGED <<w, DEBUG, path, stopped, mu, defrag, faulty, trip, contractor, Release, offline>>

\* line 243-250: the call, with its argument, up to the registration
TPAdd(txns) ==
  /\ pc["tp"] \in {"idle", "rejected"}
  /\ IF tgAddErr
     THEN /\ pc' = [pc EXCEPT !["tp"] = "rejected"]
          /\ UNCHANGED <<w, DEBUG, path, stopped, tgCount, mu, defrag, fatal,
                         inflight, faulty, trip, contractor, Release, offline>>
     ELSE /\ tgCount' = tgCount + 1
          /\ inflight' = [inflight EXCEPT !.txns = txns]
          /\ pc' = [pc EXCEPT !["tp"] = "lock"]
          /\ UNCHANGED <<w, DEBUG, path, stopped, mu, defrag, fatal, faulty, trip, contractor, Release, offline>>

\* w.mu.Lock()
TPLock ==
  /\ pc["tp"] = "lock"
  /\ mu = ""
  /\ mu' = "tp"
  /\ pc' = [pc EXCEPT !["tp"] = "body"]
  /\ UNCHANGED <<w, DEBUG, path, stopped, tgCount, defrag, fatal, inflight, faulty, trip, contractor, Release, offline>>

\* line 253-299
TPBody ==
  /\ pc["tp"] = "body"
  /\ w' = receiveUnconfirmed(w, inflight.txns)
  /\ pc' = [pc EXCEPT !["tp"] = "unlock"]
  /\ UNCHANGED <<DEBUG, path, stopped, tgCount, mu, defrag, fatal, inflight, faulty, trip, contractor, Release, offline>>

\* defer w.mu.Unlock()
TPUnlock ==
  /\ pc["tp"] = "unlock"
  /\ mu' = ""
  /\ pc' = [pc EXCEPT !["tp"] = "done"]
  /\ UNCHANGED <<w, DEBUG, path, stopped, tgCount, defrag, fatal, inflight, faulty, trip, contractor, Release, offline>>

\* defer w.tg.Done()
TPDone ==
  /\ pc["tp"] = "done"
  /\ tgCount' = tgCount - 1
  /\ pc' = [pc EXCEPT !["tp"] = "idle"]
  /\ inflight' = [inflight EXCEPT !.txns = <<>>]
  /\ UNCHANGED <<w, DEBUG, path, stopped, mu, defrag, fatal, faulty, trip, contractor, Release, offline>>

\* the shutdown gate begins to shut down: tg.Stop
CloseStop ==
  /\ pc["cl"] = "idle"
  /\ stopped' = TRUE
  /\ pc' = [pc EXCEPT !["cl"] = "wait"]
  /\ UNCHANGED <<w, DEBUG, path, tgCount, mu, defrag, fatal, inflight, faulty, trip, contractor, Release, offline>>

\* tg.Stop returns once every registered call has deregistered
CloseWait ==
  /\ pc["cl"] = "wait"
  /\ tgCount = 0
  /\ pc' = [pc EXCEPT !["cl"] = "closed"]
  /\ UNCHANGED <<w, DEBUG, path, stopped, tgCount, mu, defrag, fatal, inflight, faulty, trip, contractor, Release, offline>>

\* the goroutine of `go w.threadedDefragWallet()` starts to run
DefragStart ==
  /\ pc["df"] = "idle"
  /\ defrag > 0
  /\ defrag' = defrag - 1
  /\ pc' = [pc EXCEPT !["df"] = "lock"]
  /\ UNCHANGED <<w, DEBUG, path, stopped, tgCount, mu, fatal, inflight, faulty, trip, contractor, Release, offline>>

\* it takes the lock on its own
DefragLock ==
  /\ pc["df"] = "lock"
  /\ mu = ""
  /\ mu' = "df"
  /\ pc' = [pc EXCEPT !["df"] = "body"]
  /\ UNCHANGED <<w, DEBUG, path, stopped, tgCount, defrag, fatal, inflight, faulty, trip, contractor, Release, offline>>

\* it works on the wallet under the lock (what it does to the outputs is not
\* followed here) and releases the lock
DefragFinish ==
  /\ pc["df"] = "body"
  /\ mu' = ""
  /\ pc' = [pc EXCEPT !["df"] = "idle"]
  /\ UNCHANGED <<w, DEBUG, path, stopped, tgCount, defrag, fatal, inflight, faulty, trip, contractor, Release, offline>>

InitConc ==
  /\ w = NewWallet
  /\ DEBUG \in BOOLEAN
  /\ path = <<>>
  /\ stopped = FALSE
  /\ tgCount = 0
  /\ mu = ""
  /\ defrag = 0
  /\ fatal = FALSE
  /\ pc = [t \in Threads |-> "idle"]
  /\ inflight = NoCalls
  /\ faulty = 0
  /\ trip = NoTrip
  /\ contractor = NewContractor
  /\ Release = "standard"
  /\ offline = NoCall

NextConc ==
  \/ \E from \in ConcPaths : \E m \in ConcMoves(from) : \E synced \in BOOLEAN :
       PCCAdd(from, m, synced)
  \/ PCCLock
  \/ PCCUpdate
  \/ PCCHistory
  \/ PCCUnlock
  \/ PCCDone
  \/ \E txns \in ConcCandidates : TPAdd(txns)
  \/ TPLock
  \/ TPBody
  \/ TPUnlock
  \/ TPDone
  \/ CloseStop
  \/ CloseWait
  \/ DefragStart
  \/ DefragLock
  \/ DefragFinish

SpecConc == InitConc /\ [][NextConc]_vars

\* Every call in flight goes on: the scheduler runs every goroutine that can
\* take a step, a free lock is handed to one that waits for it, and the
\* maintenance goroutine gives the lock back.  Nothing makes anyone start a
\* call or close the wallet.
Progress ==
  /\ WF_vars(PCCLock) /\ WF_vars(PCCUpdate) /\ WF_vars(PCCHistory)
  /\ WF_vars(PCCUnlock) /\ WF_vars(PCCDone)
  /\ WF_vars(TPLock) /\ WF_vars(TPBody) /\ WF_vars(TPUnlock) /\ WF_vars(TPDone)
  /\ WF_vars(CloseWait)
  /\ WF_vars(DefragStart) /\ WF_vars(DefragLock) /\ WF_vars(DefragFinish)

SpecConcFair == InitConc /\ [][NextConc]_vars /\ Progress

ShutdownCompletes == (pc["cl"] = "wait") ~> (pc["cl"] = "closed")

(***************************************************************************)
(* C4.  Fatal invariant trip: when updateConfirmedSet meets, for an address *)
(* of the wallet, an apply diff whose identifier the ledger holds or a      *)
(* revert diff whose identifier it does not hold (siacoin or siafund), the  *)
(* call ends in the fatal condition.                                        *)
(***************************************************************************)
DiffAddr(diff) ==
  IF "SiacoinOutput" \in DOMAIN diff THEN diff.SiacoinOutput.addr
  ELSE diff.SiafundOutput.addr

\* whether the ledger holds the identifier of diff k when diff k is met: as
\* the last earlier diff of the wallet on that identifier left it, else as
\* the ledger held it at the start
PresentBefore(ledger, diffs, k) ==
  LET earlier == {j \in 1..(k - 1) : diffs[j].ID = diffs[k].ID /\ DiffAddr(diffs[j]) \in keys}
  IN  IF earlier = {} THEN diffs[k].ID \in DOMAIN ledger
      ELSE diffs[CHOOSE j \in earlier : \A i \in earlier : i <= j].Direction = DiffApply

Trips(ledger, diffs) ==
  \E k \in 1..Len(diffs) :
    /\ DiffAddr(diffs[k]) \in keys
    /\ (diffs[k].Direction = DiffApply) = PresentBefore(ledger, diffs, k)

ChangeTrips(wal, cc) ==
  \/ Trips(wal.siacoinOutputs, cc.SiacoinOutputDiffs)
  \/ Trips(wal.siafundOutputs, cc.SiafundOutputDiffs)

FatalOnTrip ==
  [][(PCCUpdate /\ ChangeTrips(w, inflight.cc)) => inflight'.panicking]_vars

(***************************************************************************)
(* C5.  Shutdown safety: a call of ProcessConsensusChange or of             *)
(* ReceiveUpdatedUnconfirmedTransactions made once the gate has begun to    *)
(* shut down returns at once: it takes no lock, registers nothing, changes  *)
(* nothing of the wallet, dispatches no maintenance and is not fatal.       *)
(***************************************************************************)
ShutdownSafe ==
  [][\A t \in {"cs", "tp"} :
       (stopped /\ pc[t] \in {"idle", "rejected"} /\ pc'[t] # pc[t]) =>
         /\ pc'[t] = "rejected"
         /\ UNCHANGED <<w, mu, tgCount, defrag, fatal, inflight, contractor, Release, offline>>]_vars

\* both entry points have been called after the stop, with a wallet that
\* holds a confirmed log
ShutdownSafeWitness ==
  /\ stopped
  /\ pc["cs"] = "rejected"
  /\ pc["tp"] = "rejected"
  /\ w.processedTransactions # <<>>

(***************************************************************************)
(* C6.  Every registered call deregisters once and releases the lock on     *)
(* every way out, also a fatal one; the shutdown completes only when no     *)
(* call is registered, and a shutdown that waits does complete.             *)
(***************************************************************************)
Registered(t) == pc[t] \in {"lock", "update", "history", "body", "unlock", "done"}

GateInv ==
  /\ tgCount = Cardinality({t \in {"cs", "tp"} : Registered(t)})
  /\ \A t \in {"cs", "tp"} :
       pc[t] \in {"idle", "rejected", "panicked", "lock", "done"} => mu # t
  /\ pc["cl"] = "closed" => \A t \in {"cs", "tp"} : ~Registered(t)

DeregistersAndCompletes == []GateInv /\ ShutdownCompletes

\* the shutdown waits while a call that tripped still holds the lock
DeregistersWitness ==
  /\ pc["cl"] = "wait"
  /\ pc["cs"] = "unlock"
  /\ inflight.panicking
  /\ mu = "cs"

(***************************************************************************)
(* C7.  Mutual exclusion: at most one of the calls (and the maintenance     *)
(* goroutine) is inside its mutation, and it holds the lock; so while       *)
(* ProcessConsensusChange is between its passes no other call is inside.    *)
(***************************************************************************)
InMutation(t) ==
  IF t = "df" THEN pc[t] = "body" ELSE pc[t] \in {"update", "history", "body", "unlock"}

MutualExclusion ==
  /\ Cardinality({t \in Threads : InMutation(t)}) <= 1
  /\ \A t \in Threads : InMutation(t) => mu = t

\* the ledger is updated and the log and the height are not yet, while the
\* other call waits for the lock
MutualExclusionWitness ==
  /\ pc["cs"] = "history"
  /\ pc["tp"] = "lock"
  /\ w.siafundOutputs # <<>>
  /\ w.consensusSetHeight = 0
  /\ w.processedTransactions = <<>>

(***************************************************************************)
(* C10.  Asynchronous maintenance, as claimed: a registered call            *)
(* dispatches the maintenance goroutine exactly when cc.Synced is set.      *)
(***************************************************************************)
PCCBodyEnds == pc["cs"] \in {"update", "history"} /\ pc'["cs"] = "unlock"

DispatchIffSynced ==
  [][PCCBodyEnds => ((defrag' = defrag + 1) <=> inflight.cc.Synced)]_vars

(***************************************************************************)
(* C10, amended.  A registered call that does not end in the fatal          *)
(* condition dispatches one maintenance goroutine exactly when cc.Synced is *)
(* set, a call that ends in the fatal condition dispatches none; the call   *)
(* can always release the lock and deregister, whatever the maintenance     *)
(* goroutine does; and the maintenance goroutine is inside the wallet only  *)
(* with the lock, taken on its own, and with ProcessConsensusChange outside *)
(* its mutation.                                                            *)
(***************************************************************************)
NeverAwaited ==
  /\ pc["cs"] = "unlock" => ENABLED PCCUnlock
  /\ pc["cs"] = "done" => ENABLED PCCDone
  /\ pc["df"] = "body" => mu = "df" /\ ~InMutation("cs")

DispatchWhenSynced ==
  /\ []NeverAwaited
  /\ [][PCCBodyEnds =>
          /\ (defrag' = defrag + 1) <=> (inflight.cc.Synced /\ ~inflight'.panicking)
          /\ defrag' \in {defrag, defrag + 1}]_vars

\* the call that dispatched the goroutine has returned and the next call
\* waits for the lock the goroutine holds
DispatchWitness ==
  /\ pc["df"] = "body"
  /\ pc["cs"] = "lock"
  /\ defrag = 0

(***************************************************************************)
(* C11.  Tracked height: every registered ProcessConsensusChange changes    *)
(* the tracked height by the number of blocks the change applies minus the  *)
(* number it reverts (one decrement per reverted block, whether or not an   *)
(* entry was popped for it), and every entry of the confirmed log carries   *)
(* the height the wallet tracked once it had counted the entry's block.     *)
(* The consensus set moves from path to path' with the change: whatever     *)
(* the common part, the applied blocks less the reverted ones are the       *)
(* blocks of path' less those of path.                                      *)
(***************************************************************************)
\* the number of blocks of the consensus set at a path
ChainHeight(p) == IF p = <<>> THEN 0 ELSE HeightOf(p, Len(p))

\* the entry is the miner payout entry or a transaction of the block
EntryOfBlock(pt, block) ==
  \/ pt.TransactionID = BlockID(block)
  \/ \E k \in 1..Len(block.txns) : pt.TransactionID = TxnID(block.txns[k])

EntriesAtBlockHeight ==
  \A i \in 1..Len(w.processedTransactions) :
    LET pt == w.processedTransactions[i]
    IN  /\ IsBlockHeight(pt.ConfirmationHeight)
        /\ EntryOfBlock(pt, BlockAtHeight(pt.ConfirmationHeight))

HeightTracked ==
  /\ [](w.consensusSetHeight = ChainHeight(path) /\ EntriesAtBlockHeight)
  /\ [][w'.consensusSetHeight =
          (w.consensusSetHeight + HeightMod + ChainHeight(path') - ChainHeight(path))
            % HeightMod]_vars

\* a block for which no entry was appended has been applied and reverted:
\* the height went up and came down, the log stayed; the block came after
\* entries of lower heights
HeightTrackedWitness ==
  /\ trip.phase = "reverted"
  /\ trip.applied.processedTransactions = trip.before.processedTransactions
  /\ trip.before.processedTransactions # <<>>
  /\ trip.applied.consensusSetHeight = trip.before.consensusSetHeight + 1
  /\ w.consensusSetHeight = trip.before.consensusSetHeight

(***************************************************************************)
(* C12.  The cache of historic values is append-only: a value or a claim    *)
(* start that is recorded under an identifier stays recorded under it,      *)
(* unchanged, through every call of ProcessConsensusChange and of           *)
(* ReceiveUpdatedUnconfirmedTransactions, also when the block that wrote    *)
(* it is reverted and applied again.                                        *)
(***************************************************************************)
CacheKept ==
  [][/\ \A id \in DOMAIN w.historicOutputs :
          /\ id \in DOMAIN w'.historicOutputs
          /\ w'.historicOutputs[id] = w.historicOutputs[id]
     /\ \A id \in DOMAIN w.historicClaimStarts :
          /\ id \in DOMAIN w'.historicClaimStarts
          /\ w'.historicClaimStarts[id] = w.historicClaimStarts[id]]_vars

\* the cache holds the payout of block 2 and the claim start of an output
\* of transaction 5 while their blocks are not in the path, and the value
\* of an output of a transaction that was only a candidate
CacheKeptWitness ==
  /\ MinerPayoutID(BlockCatalogue[2], 0) \in DOMAIN w.historicOutputs
  /\ SiafundOutputID(TxnCatalogue[5], 0) \in DOMAIN w.historicClaimStarts
  /\ SiacoinOutputID(TxnCatalogue[3], 1) \in DOMAIN w.historicOutputs
  /\ \A j \in 1..Len(path) : path[j] \notin {2, 4, 5, 6}

(***************************************************************************)
(* C13.  The revert pass removes only what the reverted blocks added: it    *)
(* pops an entry only from the tail of the log and only when the entry's    *)
(* identifier is that of a transaction of a reverted block or of the block  *)
(* itself; it never pops from an empty log, whatever the change (also for   *)
(* a reverted block with a payout to the wallet whose miner payout entry    *)
(* is not the tail).                                                        *)
(***************************************************************************)
RevertedIDs(cc) ==
  UNION {{BlockID(cc.RevertedBlocks[i])} \cup
         {TxnID(cc.RevertedBlocks[i].txns[k]) : k \in 1..Len(cc.RevertedBlocks[i].txns)} :
           i \in 1..Len(cc.RevertedBlocks)}

PopsOnlyReverted ==
  [][PCCHistory =>
       LET r == revertHistory(Running(w), inflight.cc)
           pts == w.processedTransactions
           kept == Len(r.w.processedTransactions)
       IN  /\ ~r.panic
           /\ r.w.processedTransactions = SubSeq(pts, 1, kept)
           /\ \A i \in (kept + 1)..Len(pts) :
                pts[i].TransactionID \in RevertedIDs(inflight.cc)]_vars

(***************************************************************************)
(* C14.  Index consistency: after every ProcessConsensusChange the          *)
(* identifiers of the index are exactly the identifiers of the entries of   *)
(* the confirmed log, and the index entry of an identifier refers to the    *)
(* log entry that carries it; no entry is in one structure and missing in   *)
(* the other.                                                               *)
(***************************************************************************)
IndexConsistent ==
  LET pts == w.processedTransactions
      idx == w.processedTransactionMap
  IN  /\ DOMAIN idx = {pts[i].TransactionID : i \in 1..Len(pts)}
      /\ \A id \in DOMAIN idx :
           /\ idx[id] \in 1..Len(pts)
           /\ pts[idx[id]].TransactionID = id

\* a block was applied and reverted: entries were appended and popped, and
\* the log and the index still hold the entries of the blocks below
IndexConsistentWitness ==
  /\ trip.phase = "reverted"
  /\ Len(trip.applied.processedTransactions) >= Len(w.processedTransactions) + 2
  /\ Len(w.processedTransactions) >= 3
  /\ Cardinality(DOMAIN w.processedTransactionMap) = Len(w.processedTransactions)

(***************************************************************************)
(* C15.  Input value resolution: every siacoin input and every siafund      *)
(* input of an entry of the confirmed log carries the value of the output   *)
(* it spends, whichever way that output came into existence (output of a    *)
(* transaction, miner payout, claim) and also when the change had already   *)
(* removed the output from the ledger.                                      *)
(***************************************************************************)
InputValuesResolved ==
  \A i \in 1..Len(w.processedTransactions) :
    LET pt == w.processedTransactions[i]
        txn == pt.Transaction
    IN  /\ \A k \in 1..Len(txn.sci) :
             pt.Inputs[k].Value = SpentSiacoinOutput(path, txn.sci[k].parent).value
        /\ \A k \in 1..Len(txn.sfi) :
             pt.Inputs[Len(txn.sci) + k].Value =
               SiafundOutputOf(path, txn.sfi[k].parent).value

(***************************************************************************)
(* C16.  The entries of the unconfirmed view are built like those of the    *)
(* confirmed log: for every candidate the view holds the entry that the     *)
(* apply pass would append for the transaction (siacoin inputs and          *)
(* outputs, siafund inputs with their claim outputs, siafund outputs,       *)
(* miner fees, with the same relevance test), but for the sentinel height,  *)
(* timestamp and maturity; a candidate whose only input or output of the    *)
(* wallet is a siafund one is in the view.                                  *)
(***************************************************************************)
\* an entry without the fields that the view fills with the sentinel
SansHeights(pt) ==
  [TransactionID |-> pt.TransactionID,
   Transaction |-> pt.Transaction,
   Inputs |-> pt.Inputs,
   Outputs |-> [i \in 1..Len(pt.Outputs) |->
                  [FundType |-> pt.Outputs[i].FundType,
                   WalletAddress |-> pt.Outputs[i].WalletAddress,
                   RelatedAddress |-> pt.Outputs[i].RelatedAddress,
                   Value |-> pt.Outputs[i].Value]]]

\* the entries the apply pass appends for the transactions, in order
AsConfirmed(wal, txns) ==
  ApplyTransactionLoop([wal EXCEPT !.processedTransactions = <<>>,
                                   !.processedTransactionMap = EmptyMap],
                       [ts |-> 0], txns).processedTransactions

UnconfirmedLikeConfirmed ==
  [][\A txns \in Candidates :
       (~stopped /\ ReceiveUpdatedUnconfirmedTransactions(txns)) =>
         LET conf == AsConfirmed(w, txns)
             view == w'.unconfirmedProcessedTransactions
         IN  /\ Len(view) = Len(conf)
             /\ \A k \in 1..Len(view) : SansHeights(view[k]) = SansHeights(conf[k])]_vars

(***************************************************************************)
(* C17.  Relevance filter: every entry of the confirmed log and of the      *)
(* unconfirmed view has an input or output flagged as the wallet's;         *)
(* every transaction and every block of the path with an input, output,     *)
(* miner payout or claim of an address of the wallet has its entry in the   *)
(* log; the flag of an input or output is set exactly when its address is   *)
(* the wallet's, and a miner fee is never flagged.                          *)
(***************************************************************************)
\* the addresses the transaction's inputs, outputs and claims name
TxnAddresses(txn) ==
  {txn.sci[i].addr : i \in 1..Len(txn.sci)} \cup {txn.sco[i].addr : i \in 1..Len(txn.sco)}
  \cup {txn.sfi[i].addr : i \in 1..Len(txn.sfi)} \cup {txn.sfi[i].claimAddr : i \in 1..Len(txn.sfi)}
  \cup {txn.sfo[i].addr : i \in 1..Len(txn.sfo)}

EntryFlags(pt) ==
  /\ \/ \E k \in 1..Len(pt.Inputs) : pt.Inputs[k].WalletAddress
     \/ \E k \in 1..Len(pt.Outputs) : pt.Outputs[k].WalletAddress
  /\ \A k \in 1..Len(pt.Inputs) :
       pt.Inputs[k].WalletAddress = (pt.Inputs[k].RelatedAddress \in keys)
  /\ \A k \in 1..Len(pt.Outputs) :
       pt.Outputs[k].WalletAddress =
         (pt.Outputs[k].FundType # "miner fee" /\ pt.Outputs[k].RelatedAddress \in keys)

LogIDs == {w.processedTransactions[i].TransactionID : i \in 1..Len(w.processedTransactions)}

RelevanceFilter ==
  /\ \A i \in 1..Len(w.processedTransactions) : EntryFlags(w.processedTransactions[i])
  /\ \A i \in 1..Len(w.unconfirmedProcessedTransactions) :
       EntryFlags(w.unconfirmedProcessedTransactions[i])
  /\ \A j \in 1..Len(path) :
       LET b == BlockCatalogue[path[j]]
       IN  /\ (\E i \in 1..Len(b.payouts) : b.payouts[i].addr \in keys)
                => BlockID(b) \in LogIDs
           /\ \A k \in 1..Len(b.txns) :
                TxnAddresses(b.txns[k]) \cap keys # {} => TxnID(b.txns[k]) \in LogIDs

(***************************************************************************)
(* C18.  Ledger ownership: a diff of an output of a foreign address leaves  *)
(* both ledgers as they are, whatever its direction; every output in a      *)
(* ledger is of an address of the wallet; an applied diff of the wallet's   *)
(* address puts the diff's output into the ledger under its identifier and  *)
(* a reverted one takes the identifier out.  So the ledgers hold, after     *)
(* every change, exactly the outputs of the wallet's addresses that the     *)
(* consensus set holds unspent at its path, as the consensus set holds      *)
(* them.                                                                    *)
(***************************************************************************)
\* the siacoin outputs that the diffs of the path created: those of its
\* transactions and, below a block marked `delayed`, the matured ones
PathSiacoinOutputs(p) ==
  UNION {{[ID |-> SiacoinOutputID(PathTxns(p)[k], i - 1),
            SiacoinOutput |-> PathTxns(p)[k].sco[i]] : i \in 1..Len(PathTxns(p)[k].sco)} :
           k \in 1..Len(PathTxns(p))}
  \cup
  UNION {{DelayedOutputs(p, i)[k] : k \in 1..Len(DelayedOutputs(p, i))} :
           i \in {x \in 1..Len(p) : \E j \in (x + 1)..Len(p) : BlockCatalogue[p[j]].delayed}}

PathSiafundOutputs(p) ==
  UNION {{[ID |-> SiafundOutputID(PathTxns(p)[k], i - 1),
            SiafundOutput |-> SiafundOutputOf(p, SiafundOutputID(PathTxns(p)[k], i - 1))] :
             i \in 1..Len(PathTxns(p)[k].sfo)} :
           k \in 1..Len(PathTxns(p))}

SpentIDs(p) == UNION {TxnInputs(PathTxns(p)[k]) : k \in 1..Len(PathTxns(p))}

LedgerOwned ==
  LET sco == {o \in PathSiacoinOutputs(path) :
                o.SiacoinOutput.addr \in keys /\ o.ID \notin SpentIDs(path)}
      sfo == {o \in PathSiafundOutputs(path) :
                o.SiafundOutput.addr \in keys /\ o.ID \notin SpentIDs(path)}
  IN  /\ \A id \in DOMAIN w.siacoinOutputs : w.siacoinOutputs[id].addr \in keys
      /\ \A id \in DOMAIN w.siafundOutputs : w.siafundOutputs[id].addr \in keys
      /\ DOMAIN w.siacoinOutputs = {o.ID : o \in sco}
      /\ DOMAIN w.siafundOutputs = {o.ID : o \in sfo}
      /\ \A o \in sco : w.siacoinOutputs[o.ID] = o.SiacoinOutput
      /\ \A o \in sfo : w.siafundOutputs[o.ID] = o.SiafundOutput

\* the path holds the block that spends the wallet's matured miner payout
\* and claim: both came into the ledger and left it, an output of a
\* transaction is still there, and the outputs of the foreign address
\* never were
LedgerOwnedWitness ==
  /\ \E j \in 1..Len(path) : path[j] = 8
  /\ DOMAIN w.siacoinOutputs = {SiacoinOutputIDOf(1, 1)}
  /\ MinerPayoutIDOf(1, 1) \in DOMAIN w.historicOutputs
  /\ w.siafundOutputs = EmptyMap

(***************************************************************************)
(* C19.  Maturity heights: in every entry of the confirmed log a miner      *)
(* payout and a claim output mature at the entry's confirmation height      *)
(* plus the maturity delay, a siacoin output and a siafund output at the    *)
(* confirmation height itself.                                              *)
(***************************************************************************)
Delayed(pt) == (pt.ConfirmationHeight + MaturityDelay) % HeightMod

MaturityHeights ==
  \A i \in 1..Len(w.processedTransactions) :
    LET pt == w.processedTransactions[i]
        txn == pt.Transaction
        outs == pt.Outputs
    IN  IF IsMinerPayoutEntry(pt)
        THEN \A k \in 1..Len(outs) :
               outs[k].FundType = "miner payout" /\ outs[k].MaturityHeight = Delayed(pt)
        ELSE /\ \A k \in 1..Len(txn.sco) :
                  /\ outs[k].FundType = "siacoin output"
                  /\ outs[k].MaturityHeight = pt.ConfirmationHeight
             /\ \A k \in 1..Len(txn.sfi) :
                  /\ outs[Len(txn.sco) + k].FundType = "claim output"
                  /\ outs[Len(txn.sco) + k].MaturityHeight = Delayed(pt)
             /\ \A k \in 1..Len(txn.sfo) :
                  /\ outs[Len(txn.sco) + Len(txn.sfi) + k].FundType = "siafund output"
                  /\ outs[Len(txn.sco) + Len(txn.sfi) + k].MaturityHeight
                       = pt.ConfirmationHeight

\* the log holds a miner payout entry, an entry with a claim output and a
\* siafund output, and an entry with a siacoin output confirmed above the
\* maturity delay
MaturityHeightsWitness ==
  LET pts == w.processedTransactions
  IN  /\ \E i \in 1..Len(pts) : IsMinerPayoutEntry(pts[i])
      /\ \E i \in 1..Len(pts) :
           /\ Len(pts[i].Transaction.sfi) > 0
           /\ Len(pts[i].Transaction.sfo) > 0
      /\ \E i \in 1..Len(pts) :
           /\ Len(pts[i].Transaction.sco) > 0
           /\ pts[i].ConfirmationHeight > MaturityDelay


(***************************************************************************)
(* The uptime test on its own: the contractor starts with any contract      *)
(* and hostdb of the sets below, under any build, and IsOffline is asked.   *)
(***************************************************************************)
ContractIDs == {"fc1", "fc2"}
NetAddresses == {"host1", "host2"}

\* the time from one scan to the next: the window, one second less, none,
\* and a scan recorded one second before the scan in front of it
ScanGaps == {-1, 0, uptimeWindow - 1, uptimeWindow}

\* the scan history with these outcomes and these gaps, the first scan at 0
ScanHistoryOf(successes, gaps) ==
  [i \in 1..Len(successes) |->
     [Timestamp |-> Sum([k \in 1..(i - 1) |-> gaps[k]]),
      Success |-> successes[i]]]

ScanHistories ==
  UNION {{ScanHistoryOf(s, g) : s \in [1..n -> BOOLEAN],
                                g \in [1..(n - 1) -> ScanGaps]} :
           n \in 0..MaxScans}

\* fc1 is unknown, or a contract with host1, or a contract with host2
ContractSets ==
  {EmptyMap} \cup {MapPut(EmptyMap, "fc1", [NetAddress |-> a]) : a \in NetAddresses}

\* the hostdb knows no host, or host1 with some scan history
HostDBs ==
  {EmptyMap} \cup {MapPut(EmptyMap, "host1", [ScanHistory |-> h]) : h \in ScanHistories}

InitUptime ==
  /\ w = NewWallet
  /\ path = <<>>
  /\ stopped = FALSE
  /\ tgCount = 0
  /\ mu = ""
  /\ defrag = 0
  /\ fatal = FALSE
  /\ pc = [t \in Threads |-> "idle"]
  /\ inflight = NoCalls
  /\ faulty = 0
  /\ trip = NoTrip
  /\ DEBUG \in BOOLEAN
  /\ Release \in {"dev", "standard", "testing"}
  /\ contractor \in [contracts : ContractSets, hdb : HostDBs]
  /\ offline = NoCall

\* IsOffline: isOffline under the contractor's read lock
IsOffline(id) ==
  /\ offline' = [called |-> TRUE, id |-> id, ret |-> isOffline(contractor, id)]
  /\ UNCHANGED <<w, DEBUG, path, stopped, tgCount, mu, defrag, fatal, pc, inflight,
                 faulty, trip, contractor, Release>>

NextUptime == \E id \in ContractIDs : IsOffline(id)

SpecUptime == InitUptime /\ [][NextUptime]_vars

\* the scan history of the host of a known contract
KnownHost(id) ==
  /\ id \in DOMAIN contractor.contracts
  /\ contractor.contracts[id].NetAddress \in DOMAIN contractor.hdb
HistoryOf(id) == contractor.hdb[contractor.contracts[id].NetAddress].ScanHistory
Ordered(hist) ==
  \A i \in 1..Len(hist) : \A j \in 1..Len(hist) :
    i < j => hist[i].Timestamp <= hist[j].Timestamp
Successes(hist) == {i \in 1..Len(hist) : hist[i].Success}
\* the last successful scan, or the first scan when none succeeded
Reference(hist) ==
  IF Successes(hist) = {} THEN 1
  ELSE CHOOSE i \in Successes(hist) : \A j \in Successes(hist) : j <= i

\* C20: for every contract id and every scan history ordered oldest to
\* newest, IsOffline returns true exactly when the contract and its host are
\* known, the host has at least three scans, the three most recent scans all
\* failed, and the time from the last successful scan (the first scan when
\* none succeeded) to the most recent scan is at least the uptime window; an
\* unknown contract or host gives false.
OfflineClassified ==
  offline.called =>
    IF KnownHost(offline.id)
    THEN LET hist == HistoryOf(offline.id)
             n == Len(hist)
         IN Ordered(hist) =>
              /\ ~offline.ret.critical
              /\ offline.ret.offline <=>
                   /\ n >= 3
                   /\ \A i \in (n - 2)..n : ~hist[i].Success
                   /\ hist[n].Timestamp - hist[Reference(hist)].Timestamp >= uptimeWindow
    ELSE offline.ret = Returns(FALSE)

\* a host that succeeded once and then failed for exactly the window is
\* reported offline
OfflineClassifiedWitness ==
  /\ offline.called
  /\ KnownHost(offline.id)
  /\ LET hist == HistoryOf(offline.id)
     IN /\ Ordered(hist)
        /\ Successes(hist) # {}
        /\ hist[Len(hist)].Timestamp - hist[Reference(hist)].Timestamp = uptimeWindow
  /\ offline.ret = Returns(TRUE)

====
